---------------------------- MODULE Spec2Model ----------------------------
(***************************************************************************)
(* A model of cashbarber_agenda_extractor.py: the calendar navigation      *)
(* loop (navigate_to_date), the text helpers it and extract_agenda rely    *)
(* on (parse_header_date, parse_time_range, minutes_to_hhmm), the free     *)
(* slot computation (compute_free_slots) and the per professional          *)
(* extraction (extract_agenda).                                            *)
(*                                                                         *)
(* Texts are TLA+ strings handled character by character (Len, Head,       *)
(* Tail, SubSeq, \o).  Two characters that cannot be written in a module   *)
(* are encoded: "~" stands for the en dash U+2013 and "^" for the em dash  *)
(* U+2014.                                                                 *)
(*                                                                         *)
(* A Python call that can raise is modelled by a result record: Ok(v) for  *)
(* a returned value and Raise(e) for a raised exception of class e.        *)
(***************************************************************************)
EXTENDS Integers, Sequences, FiniteSets, TLC

VARIABLES
    \* ---- the calendar view (the page driven through Selenium)
    viewKind,      \* how the page reacts to a click on an arrow
    honour,        \* clicks the page still reacts to (-1: every click)
    arrows,        \* number of svg elements found under .arrow-buttons
    viewDate,      \* the date the page is showing
    shown,         \* text of the .date-text element
    pending,       \* direction of a click the page has not rendered yet
    \* ---- navigate_to_date
    pc,            \* position of navigate_to_date
    target_date,   \* argument target_date
    current_date,  \* local current_date
    clicks,        \* local clicks
    outcome,       \* how navigate_to_date ended
    \* ---- observation of the run
    offset,        \* days from the first displayed date to the target
    fwd,           \* clicks issued on the forward arrow (index 1)
    bwd,           \* clicks issued on the backward arrow (index 0)
    labelAtClick,  \* text of .date-text when the last click was issued
    \* ---- extract_agenda
    calendar,      \* the resource headers and day columns of the page
    result,        \* what extract_agenda returned or raised
    xpc,           \* position of extract_agenda
    \* ---- compute_free_slots
    busy,          \* argument events
    slots,         \* the list returned
    fpc,           \* position of compute_free_slots
    \* ---- parse_header_date
    headerParts,   \* the pieces the header text was written from
    headerText,    \* argument text
    headerDate,    \* what parse_header_date returned or raised
    hpc,           \* position of parse_header_date
    \* ---- parse_time_range and the formatting of line 420
    rangeIn,       \* the times the range text was written from
    rangeText,     \* argument time_text
    rangeOut,      \* what parse_time_range returned or raised
    rpc,           \* position of the formatting and of parse_time_range
    \* ---- the entry points get_agenda (app.py) and main, login_cashbarber
    entry,         \* the entry point that runs
    request,       \* the shape of the payload or of the arguments
    headless,      \* the headless flag given to login_cashbarber
    spc,           \* position of the entry point
    browser,       \* the Chrome session: "none", "open" or "closed"
    driver,        \* the entry point's local driver is set
    quits,         \* calls of driver.quit()
    navResult,     \* how navigate_to_date ended, "none" before it ran
    extracted,     \* extract_agenda was called
    response,      \* what the entry point answered
    raised         \* the exception on its way to the entry point's handler

navVars == <<viewKind, honour, arrows, viewDate, shown, pending, pc,
             target_date, current_date, clicks, outcome, offset, fwd, bwd,
             labelAtClick>>

pageVars == <<calendar, result, xpc>>

freeVars == <<busy, slots, fpc>>

headerVars == <<headerParts, headerText, headerDate, hpc>>

rangeVars == <<rangeIn, rangeText, rangeOut, rpc>>

sessionVars == <<entry, request, headless, spc, browser, driver, quits,
                 navResult, extracted, response, raised>>

vars == <<navVars, pageVars, freeVars, headerVars, rangeVars, sessionVars>>

-----------------------------------------------------------------------------
(* Results of calls that may raise *)

Ok(v) == [ok |-> TRUE, v |-> v]

Raise(e) == [ok |-> FALSE, exc |-> e]

-----------------------------------------------------------------------------
(* Characters and strings *)

Digits == {"0", "1", "2", "3", "4", "5", "6", "7", "8", "9"}

WhiteSpace == {" ", "\t", "\n"}

DigitVal(c) ==
    CASE c = "0" -> 0 [] c = "1" -> 1 [] c = "2" -> 2 [] c = "3" -> 3
      [] c = "4" -> 4 [] c = "5" -> 5 [] c = "6" -> 6 [] c = "7" -> 7
      [] c = "8" -> 8 [] c = "9" -> 9

DigitChar(n) ==
    CASE n = 0 -> "0" [] n = 1 -> "1" [] n = 2 -> "2" [] n = 3 -> "3"
      [] n = 4 -> "4" [] n = 5 -> "5" [] n = 6 -> "6" [] n = 7 -> "7"
      [] n = 8 -> "8" [] n = 9 -> "9"

\* expr(x) with x evaluated once (a let-binding that is computed eagerly)
Let(x, expr(_)) == CHOOSE r \in {expr(v) : v \in {x}} : TRUE

\* the decimal digits of a natural number, as str(n) writes them
RECURSIVE NatToStr(_)
NatToStr(n) ==
    IF n < 10 THEN DigitChar(n)
    ELSE NatToStr(n \div 10) \o DigitChar(n % 10)

\* position of the first character of s from position i on that is in the
\* set cs, 0 if none
RECURSIVE FindFrom(_, _, _)
FindFrom(s, cs, i) ==
    Let(i, LAMBDA j :
        IF j > Len(s) THEN 0
        ELSE IF SubSeq(s, j, j) \in cs THEN j
        ELSE FindFrom(s, cs, j + 1))

\* str.split(sep) for a separator of one character
RECURSIVE PySplit(_, _)
PySplit(s, sep) ==
    Let(s, LAMBDA t :
        Let(FindFrom(t, {sep}, 1), LAMBDA i :
            IF i = 0 THEN <<t>>
            ELSE <<SubSeq(t, 1, i - 1)>>
                 \o PySplit(SubSeq(t, i + 1, Len(t)), sep)))

RECURSIVE LStrip(_)
LStrip(s) ==
    Let(s, LAMBDA t :
        IF t # "" /\ Head(t) \in WhiteSpace THEN LStrip(Tail(t)) ELSE t)

RECURSIVE RStrip(_)
RStrip(s) ==
    Let(s, LAMBDA t :
        IF t # "" /\ SubSeq(t, Len(t), Len(t)) \in WhiteSpace
        THEN RStrip(SubSeq(t, 1, Len(t) - 1)) ELSE t)

\* str.strip()
PyStrip(s) == RStrip(LStrip(s))

\* str.split() with no argument: the maximal runs of non-blank characters
RECURSIVE PySplitWS(_)
PySplitWS(s) ==
    Let(LStrip(s), LAMBDA t :
        Let(FindFrom(t, WhiteSpace, 1), LAMBDA i :
            IF t = "" THEN << >>
            ELSE IF i = 0 THEN <<t>>
            ELSE <<SubSeq(t, 1, i - 1)>>
                 \o PySplitWS(SubSeq(t, i + 1, Len(t)))))

\* every character of s that is in the set cs replaced by the text new
RECURSIVE ReplaceChars(_, _, _)
ReplaceChars(s, cs, new) ==
    Let(s, LAMBDA t :
        IF t = "" THEN ""
        ELSE (IF Head(t) \in cs THEN new ELSE Head(t))
             \o ReplaceChars(Tail(t), cs, new))

AllDigits(s) == \A i \in 1..Len(s) : SubSeq(s, i, i) \in Digits

RECURSIVE DigitsVal(_, _)
DigitsVal(s, acc) ==
    Let(<<s, acc>>, LAMBDA p :
        IF p[1] = "" THEN p[2]
        ELSE DigitsVal(Tail(p[1]), p[2] * 10 + DigitVal(Head(p[1]))))

\* int(s): blanks around, an optional sign, then one or more digits
PyInt(s) ==
    Let(PyStrip(s), LAMBDA t :
        Let(IF t # "" /\ Head(t) \in {"+", "-"} THEN Tail(t) ELSE t,
            LAMBDA body :
              IF body = "" \/ ~AllDigits(body) THEN Raise("ValueError")
              ELSE IF Head(t) = "-" THEN Ok(0 - DigitsVal(body, 0))
              ELSE Ok(DigitsVal(body, 0))))

-----------------------------------------------------------------------------
(* Calendar dates: datetime.date *)

MONTHS_PT(abbrev) ==
    CASE abbrev = "Jan" -> 1 [] abbrev = "Fev" -> 2 [] abbrev = "Mar" -> 3
      [] abbrev = "Abr" -> 4 [] abbrev = "Mai" -> 5 [] abbrev = "Jun" -> 6
      [] abbrev = "Jul" -> 7 [] abbrev = "Ago" -> 8 [] abbrev = "Set" -> 9
      [] abbrev = "Out" -> 10 [] abbrev = "Nov" -> 11 [] abbrev = "Dez" -> 12
      [] OTHER -> 0

IsLeap(y) == (y % 4 = 0 /\ y % 100 # 0) \/ y % 400 = 0

DaysInMonth(y, m) ==
    IF m = 2 THEN (IF IsLeap(y) THEN 29 ELSE 28)
    ELSE IF m \in {4, 6, 9, 11} THEN 30 ELSE 31

MkDate(y, m, d) == [year |-> y, month |-> m, day |-> d]

\* datetime.date(year, month, day): ValueError outside the calendar
PyDate(y, m, d) ==
    IF y \in 1..9999 /\ m \in 1..12 /\ d >= 1 /\ d <= DaysInMonth(y, m)
    THEN Ok(MkDate(y, m, d))
    ELSE Raise("ValueError")

\* a < b on dates
DateLess(a, b) ==
    \/ a.year < b.year
    \/ a.year = b.year /\ a.month < b.month
    \/ a.year = b.year /\ a.month = b.month /\ a.day < b.day

NextDay(a) ==
    IF a.day < DaysInMonth(a.year, a.month) THEN MkDate(a.year, a.month, a.day + 1)
    ELSE IF a.month < 12 THEN MkDate(a.year, a.month + 1, 1)
    ELSE MkDate(a.year + 1, 1, 1)

PrevDay(a) ==
    IF a.day > 1 THEN MkDate(a.year, a.month, a.day - 1)
    ELSE IF a.month > 1
         THEN MkDate(a.year, a.month - 1, DaysInMonth(a.year, a.month - 1))
    ELSE MkDate(a.year - 1, 12, 31)

\* the date n days after a (before, when n < 0)
RECURSIVE AddDays(_, _)
AddDays(a, n) ==
    LET left == DaysInMonth(a.year, a.month) - a.day
    IN  IF n >= 0
        THEN IF n <= left THEN MkDate(a.year, a.month, a.day + n)
             ELSE AddDays(NextDay(MkDate(a.year, a.month, a.day + left)),
                          n - left - 1)
        ELSE IF a.day + n >= 1 THEN MkDate(a.year, a.month, a.day + n)
             ELSE AddDays(PrevDay(MkDate(a.year, a.month, 1)), n + a.day)

\* a variant of parse_header_date without the replace('.', '') of line 79
ParseHeaderKeepDots(text) ==
    Let(PySplit(text, ","), LAMBDA pieces :
        IF Len(pieces) < 2 THEN Raise("ValueError")
        ELSE
          Let(PySplitWS(PyStrip(pieces[2])), LAMBDA parts :
                IF Len(parts) # 3 THEN Raise("ValueError")
                ELSE
                  Let(<<PyInt(parts[1]), MONTHS_PT(parts[2])>>, LAMBDA dm :
                      IF ~dm[1].ok THEN dm[1]
                      ELSE IF dm[2] = 0 THEN Raise("ValueError")
                      ELSE Let(PyInt(parts[3]), LAMBDA year :
                               IF ~year.ok THEN year
                               ELSE PyDate(year.v, dm[2], dm[1].v)))))

parse_header_date(text) ==
    Let(PySplit(text, ","), LAMBDA pieces :
        IF Len(pieces) < 2 THEN Raise("ValueError")
        ELSE
          Let(PySplitWS(ReplaceChars(PyStrip(pieces[2]), {"."}, "")),
              LAMBDA parts :
                IF Len(parts) # 3 THEN Raise("ValueError")
                ELSE
                  Let(<<PyInt(parts[1]), MONTHS_PT(parts[2])>>, LAMBDA dm :
                      IF ~dm[1].ok THEN dm[1]
                      ELSE IF dm[2] = 0 THEN Raise("ValueError")
                      ELSE Let(PyInt(parts[3]), LAMBDA year :
                               IF ~year.ok THEN year
                               ELSE PyDate(year.v, dm[2], dm[1].v))))) 

-----------------------------------------------------------------------------
(* Times of the day: parse_time_range, minutes_to_hhmm *)

EnDash == "~"

EmDash == "^"

\* one side of a time range: int(x.split(':')[0]) * 60 + int(x.split(':')[1])
ClockMinutes(side) ==
    Let(PySplit(side, ":"), LAMBDA hm :
        Let(PyInt(hm[1]), LAMBDA h :
            IF ~h.ok THEN h
            ELSE IF Len(hm) < 2 THEN Raise("IndexError")
            ELSE Let(PyInt(hm[2]), LAMBDA m :
                     IF ~m.ok THEN m ELSE Ok(h.v * 60 + m.v))))

\* [s.strip() for s in parts]
StripAll(parts) == [i \in 1..Len(parts) |-> PyStrip(parts[i])]

\* a variant of parse_time_range whose line 99 rewrites the en dash only
ParseRangeEnDashOnly(time_text) ==
    Let(ReplaceChars(time_text, {EnDash}, "-"), LAMBDA normalized :
        IF FindFrom(normalized, {"-"}, 1) = 0 THEN Raise("ValueError")
        ELSE
          Let(StripAll(PySplit(normalized, "-")), LAMBDA sides :
              IF Len(sides) # 2 THEN Raise("ValueError")
              ELSE
                Let(ClockMinutes(sides[1]), LAMBDA start_min :
                    IF ~start_min.ok THEN start_min
                    ELSE Let(ClockMinutes(sides[2]), LAMBDA end_min :
                             IF ~end_min.ok THEN end_min
                             ELSE Ok(<<start_min.v, end_min.v>>)))))

parse_time_range(time_text) ==
    Let(ReplaceChars(time_text, {EnDash, EmDash}, "-"), LAMBDA normalized :
        IF FindFrom(normalized, {"-"}, 1) = 0 THEN Raise("ValueError")
        ELSE
          Let(StripAll(PySplit(normalized, "-")), LAMBDA sides :
              IF Len(sides) # 2 THEN Raise("ValueError")
              ELSE
                Let(ClockMinutes(sides[1]), LAMBDA start_min :
                    IF ~start_min.ok THEN start_min
                    ELSE Let(ClockMinutes(sides[2]), LAMBDA end_min :
                             IF ~end_min.ok THEN end_min
                             ELSE Ok(<<start_min.v, end_min.v>>)))))

\* a variant of Pad2 that writes the number without padding: format(n, "d")
PadNone(n) == IF n < 0 THEN "-" \o NatToStr(0 - n) ELSE NatToStr(n)

\* format(n, "02d")
Pad2(n) ==
    IF n < 0 THEN "-" \o NatToStr(0 - n)
    ELSE IF n < 10 THEN "0" \o NatToStr(n)
    ELSE NatToStr(n)

minutes_to_hhmm(minutes) ==
    Pad2(minutes \div 60) \o ":" \o Pad2(minutes % 60)

-----------------------------------------------------------------------------
(* compute_free_slots *)

\* tuple order of Python on (start, end) pairs
PairLess(a, b) == a[1] < b[1] \/ (a[1] = b[1] /\ a[2] < b[2])

\* line 125, sorted(events): ascending in the tuple order
SortedPairs(events) ==
    LET n == Len(events)
        rank(i) == 1 + Cardinality({j \in 1..n :
                         \/ PairLess(events[j], events[i])
                         \/ (~PairLess(events[i], events[j]) /\ j < i)})
    IN  [k \in 1..n |-> events[CHOOSE i \in 1..n : rank(i) = k]]

\* a variant of Max that keeps the second argument: cur_end = end
MaxSecond(a, b) == b

Max(a, b) == IF a >= b THEN a ELSE b

\* the loop of lines 130-133 from the k-th sorted event on
RECURSIVE FreeLoop(_, _, _, _)
FreeLoop(events, k, cur_end, free) ==
    IF k > Len(events) THEN free
    ELSE FreeLoop(events, k + 1, Max(cur_end, events[k][2]),
                  IF events[k][1] > cur_end
                  THEN Append(free, <<cur_end, events[k][1]>>)
                  ELSE free)

\* a variant of compute_free_slots without the sorted() of line 125
ComputeFreeUnsorted(events) ==
    IF events = << >> THEN << >>
    ELSE FreeLoop(events, 2, events[1][2], << >>)

compute_free_slots(events) ==
    IF events = << >> THEN << >>
    ELSE Let(SortedPairs(events), LAMBDA sorted :
             FreeLoop(sorted, 2, sorted[1][2], << >>))

-----------------------------------------------------------------------------
(* extract_agenda *)

\* An element of a day column (.rbc-event, .break, .blocked):
\*   horario  the text of its child of class "horario", << >> without one
\*   label    the text of its child of class "rbc-event-label", or << >>
\*   title    the text of its child of class "title", or << >>
\*   attr     its title attribute ("" when it has none)
\*   text     its own text
MkEntry(horario, label, title, attr, text) ==
    [horario |-> horario, label |-> label, title |-> title, attr |-> attr,
     text |-> text]

IsDigitAt(s, i) == i >= 1 /\ i <= Len(s) /\ SubSeq(s, i, i) \in Digits

IsCharAt(s, i, cs) == i >= 1 /\ i <= Len(s) /\ SubSeq(s, i, i) \in cs

\* \d{1,2}:\d{2} at position i: the position behind it, 0 without a match
MatchClock(s, i) ==
    IF IsDigitAt(s, i) /\ IsDigitAt(s, i + 1) /\ IsCharAt(s, i + 2, {":"})
       /\ IsDigitAt(s, i + 3) /\ IsDigitAt(s, i + 4)
    THEN i + 5
    ELSE IF IsDigitAt(s, i) /\ IsCharAt(s, i + 1, {":"})
            /\ IsDigitAt(s, i + 2) /\ IsDigitAt(s, i + 3)
    THEN i + 4
    ELSE 0

\* \s* at position i: the position behind the blanks
RECURSIVE SkipBlanks(_, _)
SkipBlanks(s, i) ==
    Let(i, LAMBDA j :
        IF IsCharAt(s, j, WhiteSpace) THEN SkipBlanks(s, j + 1) ELSE j)

\* the pattern of line 399 at position i: the position behind the match, 0
\* without one.  Its dash class holds the en dash and the hyphen only.
MatchRange(s, i) ==
    Let(MatchClock(s, i), LAMBDA a :
        IF a = 0 THEN 0
        ELSE Let(SkipBlanks(s, a), LAMBDA b :
                 IF ~IsCharAt(s, b, {EnDash, "-"}) THEN 0
                 ELSE MatchClock(s, SkipBlanks(s, b + 1))))

\* re.search of line 399: the leftmost match, "" when there is none
RECURSIVE SearchRange(_, _)
SearchRange(s, i) ==
    Let(i, LAMBDA j :
        IF j > Len(s) THEN ""
        ELSE IF MatchRange(s, j) # 0 THEN SubSeq(s, j, MatchRange(s, j) - 1)
        ELSE SearchRange(s, j + 1))

\* lines 380-401: the time text of an element
TimeText(ev) ==
    IF ev.horario # << >> THEN PyStrip(ev.horario[1])
    ELSE IF ev.label # << >> THEN PyStrip(ev.label[1])
    ELSE SearchRange(ev.attr, 1)

\* lines 382-386: the description of an element
Descr(ev) ==
    IF ev.title # << >> THEN PyStrip(ev.title[1])
    ELSE PyStrip(IF ev.attr # "" THEN ev.attr ELSE ev.text)

\* a variant of CollectEvents that widens the event collected last instead of
\* appending when the new one starts inside it
RECURSIVE CollectEventsMerged(_, _, _)
CollectEventsMerged(elements, k, events) ==
    IF k > Len(elements) THEN Ok(events)
    ELSE Let(TimeText(elements[k]), LAMBDA time_text :
             IF time_text = "" THEN CollectEventsMerged(elements, k + 1, events)
             ELSE Let(parse_time_range(time_text), LAMBDA r :
                      IF r.ok
                      THEN CollectEventsMerged(elements, k + 1,
                             IF events # << >>
                                /\ events[Len(events)][1] <= r.v[1]
                                /\ r.v[1] <= events[Len(events)][2]
                             THEN [events EXCEPT ![Len(events)][2] =
                                      Max(events[Len(events)][2], r.v[2])]
                             ELSE Append(events,
                                      <<r.v[1], r.v[2], Descr(elements[k])>>))
                      ELSE IF r.exc = "ValueError"
                      THEN CollectEventsMerged(elements, k + 1, events)
                      ELSE r))

\* lines 378-411: the (start, end, description) triples of a column, from
\* its k-th element on; an exception other than ValueError ends the loop
RECURSIVE CollectEvents(_, _, _)
CollectEvents(elements, k, events) ==
    IF k > Len(elements) THEN Ok(events)
    ELSE Let(TimeText(elements[k]), LAMBDA time_text :
             IF time_text = "" THEN CollectEvents(elements, k + 1, events)
             ELSE Let(parse_time_range(time_text), LAMBDA r :
                      IF r.ok
                      THEN CollectEvents(elements, k + 1,
                               Append(events,
                                      <<r.v[1], r.v[2], Descr(elements[k])>>))
                      ELSE IF r.exc = "ValueError"
                      THEN CollectEvents(elements, k + 1, events)
                      ELSE r))

\* a variant of SortedByStart that orders by start, then by end
SortedByStartEnd(events) ==
    LET n == Len(events)
        rank(i) == 1 + Cardinality({j \in 1..n :
                         \/ PairLess(events[j], events[i])
                         \/ (~PairLess(events[i], events[j]) /\ j < i)})
    IN  [k \in 1..n |-> events[CHOOSE i \in 1..n : rank(i) = k]]

\* line 414, sorted(events, key=lambda x: x[0]): ascending in the start;
\* the sort is stable, events of equal start keep their order
SortedByStart(events) ==
    LET n == Len(events)
        rank(i) == 1 + Cardinality({j \in 1..n :
                         \/ events[j][1] < events[i][1]
                         \/ (events[j][1] = events[i][1] /\ j < i)})
    IN  [k \in 1..n |-> events[CHOOSE i \in 1..n : rank(i) = k]]

\* line 415
BusyIntervals(events_sorted) ==
    [i \in 1..Len(events_sorted) |->
        <<events_sorted[i][1], events_sorted[i][2]>>]

\* line 419
EventStr(ev) ==
    minutes_to_hhmm(ev[1]) \o " - " \o minutes_to_hhmm(ev[2]) \o ": " \o ev[3]

\* line 420
FreeStr(iv) == minutes_to_hhmm(iv[1]) \o " - " \o minutes_to_hhmm(iv[2])

\* lines 371-425 for one column: the sorted events, the free intervals and
\* the two lists of strings stored in the agenda
ColumnSchedule(elements) ==
    Let(CollectEvents(elements, 1, << >>), LAMBDA got :
        IF ~got.ok THEN got
        ELSE Let(SortedByStart(got.v), LAMBDA events_sorted :
             Let(compute_free_slots(BusyIntervals(events_sorted)),
                 LAMBDA free_intervals :
                   Ok([events_sorted |-> events_sorted,
                       free_intervals |-> free_intervals,
                       events |-> [i \in 1..Len(events_sorted) |->
                                      EventStr(events_sorted[i])],
                       free |-> [i \in 1..Len(free_intervals) |->
                                    FreeStr(free_intervals[i])]]))))

\* line 361: the header texts that are not blank, stripped
RECURSIVE ProfNames(_)
ProfNames(headers) ==
    IF headers = << >> THEN << >>
    ELSE (IF PyStrip(Head(headers)) # "" THEN <<PyStrip(Head(headers))>>
          ELSE << >>) \o ProfNames(Tail(headers))

\* agenda[name] = value on a dict kept as a sequence of <<key, value>> in
\* the order of first insertion
DictSet(agenda, name, value) ==
    IF \E i \in 1..Len(agenda) : agenda[i][1] = name
    THEN [i \in 1..Len(agenda) |->
            IF agenda[i][1] = name THEN <<name, value>> ELSE agenda[i]]
    ELSE Append(agenda, <<name, value>>)

Min(a, b) == IF a <= b THEN a ELSE b

\* lines 370-425: the loop over zip(prof_names, day_slots) from pair k on
RECURSIVE ExtractLoop(_, _, _, _)
ExtractLoop(prof_names, day_slots, k, agenda) ==
    IF k > Min(Len(prof_names), Len(day_slots)) THEN Ok(agenda)
    ELSE Let(ColumnSchedule(day_slots[k]), LAMBDA col :
             IF ~col.ok THEN col
             ELSE ExtractLoop(prof_names, day_slots, k + 1,
                              DictSet(agenda, prof_names[k], col.v)))

\* a page is [headers |-> texts of the resource headers,
\*            day_slots |-> the elements of each day column]
\* Without any resource header the wait of line 354 times out.
extract_agenda(page) ==
    IF page.headers = << >> THEN Raise("TimeoutException")
    ELSE ExtractLoop(ProfNames(page.headers), page.day_slots, 1, << >>)

-----------------------------------------------------------------------------
(* The calendar page: what .date-text shows and how the arrows react *)

MonthAbbrev(m) ==
    CASE m = 1 -> "Jan" [] m = 2 -> "Fev" [] m = 3 -> "Mar" [] m = 4 -> "Abr"
      [] m = 5 -> "Mai" [] m = 6 -> "Jun" [] m = 7 -> "Jul" [] m = 8 -> "Ago"
      [] m = 9 -> "Set" [] m = 10 -> "Out" [] m = 11 -> "Nov" [] m = 12 -> "Dez"

\* day of the week, 0 for Sunday
DayOfWeek(a) ==
    LET t == <<0, 3, 2, 5, 0, 3, 5, 1, 4, 6, 2, 4>>
        y == IF a.month < 3 THEN a.year - 1 ELSE a.year
    IN  (y + (y \div 4) - (y \div 100) + (y \div 400) + t[a.month] + a.day) % 7

WeekdayName(a) ==
    LET w == DayOfWeek(a)
    IN  CASE w = 0 -> "Domingo" [] w = 1 -> "Segunda-feira"
          [] w = 2 -> "Terca-feira" [] w = 3 -> "Quarta-feira"
          [] w = 4 -> "Quinta-feira" [] w = 5 -> "Sexta-feira"
          [] w = 6 -> "Sabado"

\* the header text of the page for a date, e.g. "Segunda-feira, 29 Set. 2025"
ViewLabel(a) ==
    WeekdayName(a) \o ", " \o NatToStr(a.day) \o " " \o MonthAbbrev(a.month)
        \o ". " \o NatToStr(a.year)

\* the header text while the page is re-rendering
LoadingLabel == "Carregando..."

\* the date one day from a in the direction dir (1 forward, -1 backward)
StepDate(a, dir) == IF dir > 0 THEN NextDay(a) ELSE PrevDay(a)

\* the date the page moves to when it renders a click in direction dir
ViewMove(kind, a, dir) ==
    CASE kind = "day" -> StepDate(a, dir)
      [] kind = "skip" -> StepDate(StepDate(a, dir), dir)
      [] kind = "back" -> StepDate(a, 0 - dir)
      [] OTHER -> a

-----------------------------------------------------------------------------
(* Bounds and inputs of the navigation runs *)

max_clicks == 365

NearDays == 3

MaxHonour == 2

StartDates == {MkDate(2025, 9, 29), MkDate(2023, 12, 31)}

Offsets ==
    (0 - NearDays)..NearDays
        \cup {max_clicks - 1, max_clicks, max_clicks + 1}
        \cup {1 - max_clicks, 0 - max_clicks, 0 - max_clicks - 1}

ViewKinds == {"day", "skip", "back", "garbage"}

NoDate == MkDate(0, 0, 0)

NavInit ==
    /\ viewKind \in ViewKinds
    /\ honour \in -1..MaxHonour
    /\ arrows \in {0, 2}
    /\ viewDate \in StartDates
    /\ shown \in {ViewLabel(viewDate), LoadingLabel}
    /\ pending = 0
    /\ pc = "start"
    /\ offset \in Offsets
    /\ target_date = AddDays(viewDate, offset)
    /\ current_date = NoDate
    /\ clicks = 0
    /\ outcome = "running"
    /\ fwd = 0
    /\ bwd = 0
    /\ labelAtClick = ""

-----------------------------------------------------------------------------
(* navigate_to_date *)

\* variants of the definitions below, each with one plausible slip
LoopGuardOffByOne(cur, target, n) == cur # target /\ n <= max_clicks

LoopGuardNoEquality(cur, target, n) == n < max_clicks

DirectionFlipped(target, cur) == IF DateLess(cur, target) THEN -1 ELSE 1

\* the direction decided once, from the first date read
DirectionUpFront(target, cur) == IF offset > 0 THEN 1 ELSE -1

\* the limit test never fires
LimitNever(n) == FALSE

\* the loop condition of line 308
LoopGuard(cur, target, n) == cur # target /\ n < max_clicks

\* line 310: 1 towards the future, -1 towards the past
Direction(target, cur) == IF DateLess(cur, target) THEN 1 ELSE -1

\* line 318: index 1 is the forward arrow, index 0 the backward one
ArrowIndex(direction) == IF direction > 0 THEN 1 ELSE 0

\* the direction in which the arrow of index idx moves the page
ArrowDir(idx) == IF idx = 1 THEN 1 ELSE -1

\* the condition navigate_to_date waits for at line 327
LabelChanged(d, cur) == d # cur

\* the test of line 337
LimitReached(n) == n >= max_clicks

\* lines 300-302: read and parse the header
NavStart ==
    /\ pc = "start"
    /\ LET r == parse_header_date(shown)
       IN  IF r.ok
           THEN /\ current_date' = r.v
                /\ pc' = "loop"
                /\ outcome' = outcome
           ELSE /\ current_date' = current_date
                /\ pc' = "done"
                /\ outcome' = "ParseError"
    /\ UNCHANGED <<viewKind, honour, arrows, viewDate, shown, pending,
                   target_date, clicks, offset, fwd, bwd, labelAtClick>>
    /\ UNCHANGED <<pageVars, freeVars, headerVars, rangeVars, sessionVars>>

\* lines 308-315: the arrows are not there
NavNoControls ==
    /\ pc = "loop"
    /\ LoopGuard(current_date, target_date, clicks)
    /\ arrows < 2
    /\ pc' = "done"
    /\ outcome' = "ControlsMissing"
    /\ UNCHANGED <<viewKind, honour, arrows, viewDate, shown, pending,
                   target_date, current_date, clicks, offset, fwd, bwd,
                   labelAtClick>>
    /\ UNCHANGED <<pageVars, freeVars, headerVars, rangeVars, sessionVars>>

\* lines 308-320: one click on the arrow towards the target
NavClick ==
    /\ pc = "loop"
    /\ LoopGuard(current_date, target_date, clicks)
    /\ arrows >= 2
    /\ LET idx == ArrowIndex(Direction(target_date, current_date))
       IN  /\ pending' = IF honour = 0 THEN 0 ELSE ArrowDir(idx)
           /\ honour' = IF honour > 0 THEN honour - 1 ELSE honour
           /\ fwd' = IF idx = 1 THEN fwd + 1 ELSE fwd
           /\ bwd' = IF idx = 0 THEN bwd + 1 ELSE bwd
    /\ clicks' = clicks + 1
    /\ labelAtClick' = shown
    /\ pc' = "wait"
    /\ UNCHANGED <<viewKind, arrows, viewDate, shown, target_date,
                   current_date, outcome, offset>>
    /\ UNCHANGED <<pageVars, freeVars, headerVars, rangeVars, sessionVars>>

\* the page renders the click it received
ViewRender ==
    /\ pending # 0
    /\ viewDate' = ViewMove(viewKind, viewDate, pending)
    /\ shown' = IF viewKind = "garbage" THEN LoadingLabel
                ELSE ViewLabel(viewDate')
    /\ pending' = 0
    /\ UNCHANGED <<viewKind, honour, arrows, pc, target_date, current_date,
                   clicks, outcome, offset, fwd, bwd, labelAtClick>>
    /\ UNCHANGED <<pageVars, freeVars, headerVars, rangeVars, sessionVars>>

\* a variant of NavWaitChanged that reads the header without waiting for
\* another date
NavWaitNoConfirm ==
    /\ pc = "wait"
    /\ LET r == parse_header_date(shown)
       IN  /\ r.ok
           /\ current_date' = r.v
    /\ pc' = "loop"
    /\ UNCHANGED <<viewKind, honour, arrows, viewDate, shown, pending,
                   target_date, clicks, outcome, offset, fwd, bwd,
                   labelAtClick>>
    /\ UNCHANGED <<pageVars, freeVars, headerVars, rangeVars, sessionVars>>

\* lines 326-332: the wait sees another date and the header is read again
NavWaitChanged ==
    /\ pc = "wait"
    /\ LET r == parse_header_date(shown)
       IN  /\ r.ok
           /\ LabelChanged(r.v, current_date)
           /\ current_date' = r.v
    /\ pc' = "loop"
    /\ UNCHANGED <<viewKind, honour, arrows, viewDate, shown, pending,
                   target_date, clicks, outcome, offset, fwd, bwd,
                   labelAtClick>>
    /\ UNCHANGED <<pageVars, freeVars, headerVars, rangeVars, sessionVars>>

\* line 327: parse_header_date raises inside the wait
NavWaitParseError ==
    /\ pc = "wait"
    /\ ~parse_header_date(shown).ok
    /\ pc' = "done"
    /\ outcome' = "ParseError"
    /\ UNCHANGED <<viewKind, honour, arrows, viewDate, shown, pending,
                   target_date, current_date, clicks, offset, fwd, bwd,
                   labelAtClick>>
    /\ UNCHANGED <<pageVars, freeVars, headerVars, rangeVars, sessionVars>>

\* a variant of NavWaitTimeout that swallows the timeout and loops again
NavWaitTimeoutRetry ==
    /\ pc = "wait"
    /\ pending = 0
    /\ LET r == parse_header_date(shown)
       IN  r.ok /\ ~LabelChanged(r.v, current_date)
    /\ pc' = "loop"
    /\ UNCHANGED <<viewKind, honour, arrows, viewDate, shown, pending,
                   target_date, current_date, clicks, outcome, offset, fwd,
                   bwd, labelAtClick>>
    /\ UNCHANGED <<pageVars, freeVars, headerVars, rangeVars, sessionVars>>

\* lines 328-329: the 30 s of the wait elapse with the date unchanged; a
\* page that renders a click does so within the wait
NavWaitTimeout ==
    /\ pc = "wait"
    /\ pending = 0
    /\ LET r == parse_header_date(shown)
       IN  r.ok /\ ~LabelChanged(r.v, current_date)
    /\ pc' = "done"
    /\ outcome' = "NavigationStalled"
    /\ UNCHANGED <<viewKind, honour, arrows, viewDate, shown, pending,
                   target_date, current_date, clicks, offset, fwd, bwd,
                   labelAtClick>>
    /\ UNCHANGED <<pageVars, freeVars, headerVars, rangeVars, sessionVars>>

\* lines 337-340: the loop is over
NavExit ==
    /\ pc = "loop"
    /\ ~LoopGuard(current_date, target_date, clicks)
    /\ pc' = "done"
    /\ outcome' = IF LimitReached(clicks) THEN "NavigationLimitExceeded"
                  ELSE "ok"
    /\ UNCHANGED <<viewKind, honour, arrows, viewDate, shown, pending,
                   target_date, current_date, clicks, offset, fwd, bwd,
                   labelAtClick>>
    /\ UNCHANGED <<pageVars, freeVars, headerVars, rangeVars, sessionVars>>

\* navigate_to_date is not running
NavIdle ==
    /\ viewKind = "day" /\ honour = 0 /\ arrows = 0 /\ viewDate = NoDate
    /\ shown = "" /\ pending = 0 /\ pc = "idle" /\ target_date = NoDate
    /\ current_date = NoDate /\ clicks = 0 /\ outcome = "idle"
    /\ offset = 0 /\ fwd = 0 /\ bwd = 0 /\ labelAtClick = ""

-----------------------------------------------------------------------------
(* Runs of extract_agenda *)

MaxEntries == 3

Absent == << >>

Some(t) == <<t>>

Booking(horario, title) == MkEntry(Some(horario), Absent, Some(title), "", "")

\* the elements a day column is filled from
EntryPool ==
    { Booking("09:00 - 12:00", "Corte"),
      Booking(" 09:30 - 10:00 ", "Barba"),
      MkEntry(Absent, Some("10:00 ~ 11:30"), Some("Luzes"), "", ""),
      Booking("11:45 - 13:00", "Corte"),
      MkEntry(Absent, Absent, Absent, "Pausa 14:00 - 14:30", ""),
      Booking("10:30 - 09:00", "Volta"),
      Booking("25:00 - 26:00", "Tarde"),
      Booking("9 - 10", "Curto"),
      Booking("ab - cd", "Letras"),
      Booking("", "Vazio"),
      Booking("09:00 - 10:00 - 11:00", "Duplo"),
      Booking("09:00 - 09:30", "Aparar") }

\* the lists of n elements
EntryLists(n) == [1..n -> EntryPool]

\* the page with the columns of Ana and Bruno
MkPage(a, b) == [headers |-> <<"Ana", " Bruno ">>, day_slots |-> <<a, b>>]

PageIdle ==
    /\ calendar = [headers |-> << >>, day_slots |-> << >>]
    /\ result = Ok(<< >>)
    /\ xpc = "idle"

\* two columns holding at most MaxEntries elements together
PageInit ==
    /\ \E n \in 0..MaxEntries, m \in 0..MaxEntries :
          /\ n + m <= MaxEntries
          /\ \E a \in EntryLists(n), b \in EntryLists(m) :
                calendar = MkPage(a, b)
    /\ result = Ok(<< >>)
    /\ xpc = "ready"

MaxSources == 2

\* elements with every mix of the three places a time text can come from:
\* the "horario" child missing, empty, not a time range or a time range;
\* the "rbc-event-label" child missing, empty or a time range; the title
\* attribute empty, without a time range or with one
SourcePool ==
    { MkEntry(h, l, Some("Corte"), a, "") :
        h \in {Absent, Some(""), Some("ab - cd"), Some("09:00 - 10:00")},
        l \in {Absent, Some(""), Some("10:00 ~ 11:30")},
        a \in {"", "Pausa", "Pausa 14:00 - 14:30"} }

\* one column of at most MaxSources such elements
SourcesInit ==
    /\ \E n \in 0..MaxSources :
          \E a \in [1..n -> SourcePool] :
              calendar = [headers |-> <<"Ana">>, day_slots |-> <<a>>]
    /\ result = Ok(<< >>)
    /\ xpc = "ready"

MaxColumns == 3

\* the texts of the resource headers: a name, a name with blanks around it,
\* a name shown twice, a header without a name
HeaderTexts == {"Ana", "Bruno", " Ana ", ""}

\* the day columns: no element, two bookings that touch, one element whose
\* time text does not parse, two bookings apart in reverse order
ColumnPool ==
    { << >>,
      <<Booking("09:00 - 09:30", "Corte"), Booking("09:30 - 10:00", "Barba")>>,
      <<Booking("ab - cd", "Letras")>>,
      <<Booking("11:45 - 13:00", "Corte"), Booking("09:00 - 11:00", "Luzes")>> }

\* at most MaxColumns resource headers and at most MaxColumns day columns,
\* not necessarily as many of one as of the other
ColumnsInit ==
    /\ \E n \in 0..MaxColumns, m \in 0..MaxColumns :
          \E hs \in [1..n -> HeaderTexts], cs \in [1..m -> ColumnPool] :
              calendar = [headers |-> hs, day_slots |-> cs]
    /\ result = Ok(<< >>)
    /\ xpc = "ready"

\* extract_agenda(driver) on the page
Extract ==
    /\ xpc = "ready"
    /\ result' = extract_agenda(calendar)
    /\ xpc' = IF result'.ok THEN "returned" ELSE "raised"
    /\ UNCHANGED <<calendar, navVars, freeVars, headerVars, rangeVars,
                   sessionVars>>

-----------------------------------------------------------------------------
(* Runs of compute_free_slots *)

MaxMinute == 5

MaxBusy == 3

\* the busy intervals (start, end) with start <= end
Intervals == {iv \in (0..MaxMinute) \X (0..MaxMinute) : iv[1] <= iv[2]}

FreeIdle == busy = << >> /\ slots = << >> /\ fpc = "idle"

\* at most MaxBusy intervals in any order
FreeInit ==
    /\ \E n \in 0..MaxBusy : busy \in [1..n -> Intervals]
    /\ slots = << >>
    /\ fpc = "ready"

\* compute_free_slots(busy)
ComputeFree ==
    /\ fpc = "ready"
    /\ slots' = compute_free_slots(busy)
    /\ fpc' = "done"
    /\ UNCHANGED <<busy, navVars, pageVars, headerVars, rangeVars,
                   sessionVars>>

-----------------------------------------------------------------------------
(* Runs of parse_header_date *)

YearSpan == 1

Years == {1, 1900, 2000, 9999} \cup (2024..(2024 + YearSpan))

WeekdayNames ==
    {"Domingo", "Segunda-feira", "Terca-feira", "Quarta-feira",
     "Quinta-feira", "Sexta-feira", "Sabado"}

MonthAbbrevs == {MonthAbbrev(m) : m \in 1..12}

\* the header text written from its pieces
HeaderLabel(h) ==
    h.weekday \o h.sep \o h.day \o " " \o h.abbrev \o h.dot \o " " \o h.year
        \o h.tail

\* "<weekday>, <day> <abbrev>. <year>" for a day and a year written in
\* decimal, with or without the dot
PlainHeaders ==
    [form : {"plain"}, weekday : WeekdayNames, sep : {", "},
     day : {NatToStr(d) : d \in 1..31}, abbrev : MonthAbbrevs,
     dot : {"", "."}, year : {NatToStr(y) : y \in Years}, tail : {""}]

\* header texts that leave that form in one or several places
OddHeaders ==
    [form : {"odd"}, weekday : {"Segunda-feira", ""}, sep : {", ", ",", " "},
     day : {"29", "31", "0", "2.9", "x9"},
     abbrev : {"Set", "Fev", "set", "Xyz"},
     dot : {"", "."}, year : {"2025", "20.25", "ano", "0", ""},
     tail : {"", " extra", ", extra", ","}]

HeaderIdle ==
    /\ headerParts = [form |-> "none"]
    /\ headerText = ""
    /\ headerDate = Raise("none")
    /\ hpc = "idle"

HeaderInit ==
    /\ headerParts \in PlainHeaders \cup OddHeaders
    /\ headerText = HeaderLabel(headerParts)
    /\ headerDate = Raise("none")
    /\ hpc = "ready"

\* parse_header_date(text)
ParseHeader ==
    /\ hpc = "ready"
    /\ headerDate' = parse_header_date(headerText)
    /\ hpc' = "done"
    /\ UNCHANGED <<headerParts, headerText, navVars, pageVars, freeVars,
                   rangeVars, sessionVars>>

-----------------------------------------------------------------------------
(* Runs of parse_time_range and of the formatting of a free interval *)

MaxPad == 2

LastMinute == 1440

HourSamples == {0, 9, 10, 23}

MinuteSamples == {0, 5, 30, 59}

MinuteOffsets == {0, 1, 59, 60, 599, 600, 719, LastMinute - 1, LastMinute}

\* n blanks
RECURSIVE Blanks(_)
Blanks(n) == IF n = 0 THEN "" ELSE " " \o Blanks(n - 1)

\* a time of the day as the page writes it: two digits, a colon, two digits
ClockText(h, m) ==
    DigitChar(h \div 10) \o DigitChar(h % 10) \o ":"
        \o DigitChar(m \div 10) \o DigitChar(m % 10)

\* a time range as the page writes it: the separator is a hyphen, an en dash
\* or an em dash, with pad blanks on each side of it and edge blanks around
\* the whole text
PageRangeText(r) ==
    Blanks(r.edge) \o ClockText(r.h1, r.m1) \o Blanks(r.pad) \o r.sep
        \o Blanks(r.pad) \o ClockText(r.h2, r.m2) \o Blanks(r.edge)

PageRanges ==
    [kind : {"page"}, h1 : HourSamples, m1 : MinuteSamples, h2 : HourSamples,
     m2 : MinuteSamples, sep : {"-", EnDash, EmDash}, pad : 0..MaxPad,
     edge : {0, 1}]

\* the intervals (s, e) of minutes of the day with one end among the samples
DayIntervals ==
    [kind : {"interval"}, s : 0..LastMinute, e : MinuteOffsets]
        \cup [kind : {"interval"}, s : MinuteOffsets, e : 0..LastMinute]

RangeIdle ==
    /\ rangeIn = [kind |-> "none"]
    /\ rangeText = ""
    /\ rangeOut = Raise("none")
    /\ rpc = "idle"

\* a range text read from the page
RangePageInit ==
    /\ rangeIn \in PageRanges
    /\ rangeText = PageRangeText(rangeIn)
    /\ rangeOut = Raise("none")
    /\ rpc = "formatted"

\* a free interval about to be formatted
RangeIntervalInit ==
    /\ rangeIn \in DayIntervals
    /\ rangeText = ""
    /\ rangeOut = Raise("none")
    /\ rpc = "ready"

\* line 420: the text of the free interval
FormatFree ==
    /\ rpc = "ready"
    /\ rangeText' = FreeStr(<<rangeIn.s, rangeIn.e>>)
    /\ rpc' = "formatted"
    /\ UNCHANGED <<rangeIn, rangeOut, navVars, pageVars, freeVars,
                   headerVars, sessionVars>>

\* parse_time_range(time_text)
ParseRange ==
    /\ rpc = "formatted"
    /\ rangeOut' = parse_time_range(rangeText)
    /\ rpc' = "parsed"
    /\ UNCHANGED <<rangeIn, rangeText, navVars, pageVars, freeVars,
                   headerVars, sessionVars>>

-----------------------------------------------------------------------------
(* The entry points: get_agenda of app.py and main, with login_cashbarber *)

\* how navigate_to_date can end
NavOutcomes ==
    {"ok", "ParseError", "ControlsMissing", "NavigationStalled",
     "NavigationLimitExceeded", "TimeoutException"}

\* how extract_agenda can end
ExtractOutcomes == {"returned", "TimeoutException", "IndexError"}

\* the steps of lines 180-234 of login_cashbarber that can raise
LoginSteps == {"get", "fields", "button", "click"}

\* what reaches the entry point: a payload or arguments with a date in
\* YYYY-MM-DD, with another date text, and for get_agenda no JSON at all or
\* a field missing
Requests(e) ==
    IF e = "get_agenda"
    THEN {"valid", "bad_date", "no_payload", "missing_field"}
    ELSE {"valid", "bad_date"}

SessionIdle ==
    /\ entry = "none" /\ request = "none" /\ headless = FALSE
    /\ spc = "idle" /\ browser = "none" /\ driver = FALSE /\ quits = 0
    /\ navResult = "none" /\ extracted = FALSE /\ response = "none"
    /\ raised = "none"

SessionInit ==
    /\ entry \in {"get_agenda", "main"}
    /\ request \in Requests(entry)
    /\ headless \in (IF entry = "get_agenda" THEN {TRUE} ELSE BOOLEAN)
    /\ spc = "validate" /\ browser = "none" /\ driver = FALSE /\ quits = 0
    /\ navResult = "none" /\ extracted = FALSE /\ response = "none"
    /\ raised = "none"

\* app.py lines 113-139, main lines 446-451: the input is checked before any
\* browser is started
Validate ==
    /\ spc = "validate"
    /\ IF request = "valid"
       THEN spc' = "launch" /\ response' = response
       ELSE spc' = "done" /\ response' = "rejected"
    /\ UNCHANGED <<entry, request, headless, browser, driver, quits,
                   navResult, extracted, raised>>
    /\ UNCHANGED <<navVars, pageVars, freeVars, headerVars, rangeVars>>

\* lines 165-173: Chrome is started with the service, or without it when
\* that fails
LoginLaunch ==
    /\ spc = "launch"
    /\ \E withService \in BOOLEAN, fallback \in BOOLEAN :
          IF withService \/ fallback
          THEN browser' = "open" /\ spc' = "script" /\ raised' = raised
          ELSE browser' = browser /\ spc' = "except"
               /\ raised' = "WebDriverException"
    /\ UNCHANGED <<entry, request, headless, driver, quits, navResult,
                   extracted, response>>
    /\ UNCHANGED <<navVars, pageVars, freeVars, headerVars, rangeVars>>

\* a variant of LoginScript whose script runs inside the try of line 178
LoginScriptGuarded ==
    /\ spc = "script"
    /\ \E ok \in BOOLEAN :
          IF ok
          THEN spc' = "login" /\ raised' = raised /\ quits' = quits
               /\ browser' = browser
          ELSE spc' = "except" /\ raised' = "WebDriverException"
               /\ quits' = quits + 1 /\ browser' = "closed"
    /\ UNCHANGED <<entry, request, headless, driver, navResult, extracted,
                   response>>
    /\ UNCHANGED <<navVars, pageVars, freeVars, headerVars, rangeVars>>

\* line 176: the script that hides the automation runs before the try of
\* line 178; what it raises leaves login_cashbarber directly
LoginScript ==
    /\ spc = "script"
    /\ \E ok \in BOOLEAN :
          IF ok
          THEN spc' = "login" /\ raised' = raised
          ELSE spc' = "except" /\ raised' = "WebDriverException"
    /\ UNCHANGED <<entry, request, headless, browser, driver, quits,
                   navResult, extracted, response>>
    /\ UNCHANGED <<navVars, pageVars, freeVars, headerVars, rangeVars>>

\* lines 178-234 and 283-286: the login page is loaded, the form filled and
\* the button clicked; an exception quits the driver and is raised again
LoginForm ==
    /\ spc = "login"
    /\ \E failing \in LoginSteps \cup {"none"} :
          IF failing = "none"
          THEN spc' = "redirect" /\ raised' = raised /\ quits' = quits
               /\ browser' = browser
          ELSE spc' = "except" /\ raised' = failing /\ quits' = quits + 1
               /\ browser' = "closed"
    /\ UNCHANGED <<entry, request, headless, driver, navResult, extracted,
                   response>>
    /\ UNCHANGED <<navVars, pageVars, freeVars, headerVars, rangeVars>>

\* lines 239-286: the wait for the redirect; the driver is returned to the
\* entry point (app.py line 145, main line 455), or on a timeout quit at
\* line 280 and, the RuntimeError being caught at line 283, again at 285
LoginRedirect ==
    /\ spc = "redirect"
    /\ \E redirected \in BOOLEAN :
          IF redirected
          THEN spc' = "agenda" /\ driver' = TRUE /\ raised' = raised
               /\ quits' = quits /\ browser' = browser
          ELSE spc' = "except" /\ driver' = driver /\ raised' = "RuntimeError"
               /\ quits' = quits + 2 /\ browser' = "closed"
    /\ UNCHANGED <<entry, request, headless, navResult, extracted, response>>
    /\ UNCHANGED <<navVars, pageVars, freeVars, headerVars, rangeVars>>

\* app.py line 148, main line 457: driver.get(AGENDA_URL)
OpenAgenda ==
    /\ spc = "agenda"
    /\ \E ok \in BOOLEAN :
          IF ok
          THEN spc' = "navigate" /\ raised' = raised
          ELSE spc' = "except" /\ raised' = "WebDriverException"
    /\ UNCHANGED <<entry, request, headless, browser, driver, quits,
                   navResult, extracted, response>>
    /\ UNCHANGED <<navVars, pageVars, freeVars, headerVars, rangeVars>>

\* a variant of Navigate that goes on to the extraction whatever
\* navigate_to_date raised
NavigateIgnoringErrors ==
    /\ spc = "navigate"
    /\ \E o \in NavOutcomes :
          /\ navResult' = o
          /\ spc' = "extract"
    /\ UNCHANGED <<entry, request, headless, browser, driver, quits,
                   extracted, response, raised>>
    /\ UNCHANGED <<navVars, pageVars, freeVars, headerVars, rangeVars>>

\* app.py line 151, main line 459: navigate_to_date(driver, target_date)
Navigate ==
    /\ spc = "navigate"
    /\ \E o \in NavOutcomes :
          /\ navResult' = o
          /\ IF o = "ok"
             THEN spc' = "extract" /\ raised' = raised
             ELSE spc' = "except" /\ raised' = o
    /\ UNCHANGED <<entry, request, headless, browser, driver, quits,
                   extracted, response>>
    /\ UNCHANGED <<navVars, pageVars, freeVars, headerVars, rangeVars>>

\* app.py lines 154-163, main lines 461-477: extract_agenda(driver) and the
\* answer built from the agenda
ExtractAndAnswer ==
    /\ spc = "extract"
    /\ extracted' = TRUE
    /\ \E o \in ExtractOutcomes :
          IF o = "returned"
          THEN spc' = "finally" /\ response' = "agenda" /\ raised' = raised
          ELSE spc' = "except" /\ response' = response /\ raised' = o
    /\ UNCHANGED <<entry, request, headless, browser, driver, quits,
                   navResult>>
    /\ UNCHANGED <<navVars, pageVars, freeVars, headerVars, rangeVars>>

\* app.py lines 165-175, main lines 478-482: the handler answers with the
\* error (status 500, exit code 1)
HandleError ==
    /\ spc = "except"
    /\ response' = "error"
    /\ raised' = "none"
    /\ spc' = "finally"
    /\ UNCHANGED <<entry, request, headless, browser, driver, quits,
                   navResult, extracted>>
    /\ UNCHANGED <<navVars, pageVars, freeVars, headerVars, rangeVars>>

\* app.py lines 177-183, main lines 483-485: if driver: driver.quit()
Finally ==
    /\ spc = "finally"
    /\ IF driver
       THEN quits' = quits + 1 /\ browser' = "closed"
       ELSE quits' = quits /\ browser' = browser
    /\ spc' = "done"
    /\ UNCHANGED <<entry, request, headless, driver, navResult, extracted,
                   response, raised>>
    /\ UNCHANGED <<navVars, pageVars, freeVars, headerVars, rangeVars>>

-----------------------------------------------------------------------------
(* Specifications *)

Init == NavInit /\ PageIdle /\ FreeIdle /\ HeaderIdle /\ RangeIdle
        /\ SessionIdle

Next ==
    \/ NavStart
    \/ NavNoControls
    \/ NavClick
    \/ ViewRender
    \/ NavWaitChanged
    \/ NavWaitParseError
    \/ NavWaitTimeout
    \/ NavExit

\* navigate_to_date against a page
Spec == Init /\ [][Next]_vars

\* navigate_to_date keeps running and the page renders what it was asked
FairSpec == Spec /\ WF_vars(Next)

ExtractInit == NavIdle /\ PageInit /\ FreeIdle /\ HeaderIdle /\ RangeIdle
        /\ SessionIdle

ExtractNext == Extract

\* extract_agenda on a page
ExtractSpec == ExtractInit /\ [][ExtractNext]_vars

FreeSlotsInit == NavIdle /\ PageIdle /\ FreeInit /\ HeaderIdle /\ RangeIdle
        /\ SessionIdle

FreeSlotsNext == ComputeFree

\* compute_free_slots on a list of busy intervals
FreeSpec == FreeSlotsInit /\ [][FreeSlotsNext]_vars

ColumnsSpecInit ==
    NavIdle /\ ColumnsInit /\ FreeIdle /\ HeaderIdle /\ RangeIdle
        /\ SessionIdle

ColumnsNext == Extract

\* extract_agenda on a page with any resource headers and day columns
ColumnsSpec == ColumnsSpecInit /\ [][ColumnsNext]_vars

SourcesSpecInit ==
    NavIdle /\ SourcesInit /\ FreeIdle /\ HeaderIdle /\ RangeIdle
        /\ SessionIdle

SourcesNext == Extract

\* extract_agenda on a column whose elements carry their time text in
\* different places
SourcesSpec == SourcesSpecInit /\ [][SourcesNext]_vars

SessionSpecInit ==
    NavIdle /\ PageIdle /\ FreeIdle /\ HeaderIdle /\ RangeIdle
        /\ SessionInit

SessionNext ==
    \/ Validate
    \/ LoginLaunch
    \/ LoginScript
    \/ LoginForm
    \/ LoginRedirect
    \/ OpenAgenda
    \/ Navigate
    \/ ExtractAndAnswer
    \/ HandleError
    \/ Finally

\* one request served by get_agenda or one run of main
SessionSpec == SessionSpecInit /\ [][SessionNext]_vars

HeaderSpecInit == NavIdle /\ PageIdle /\ FreeIdle /\ HeaderInit /\ RangeIdle
        /\ SessionIdle

HeaderNext == ParseHeader

\* parse_header_date on a header text
HeaderSpec == HeaderSpecInit /\ [][HeaderNext]_vars

RangeSpecInit == NavIdle /\ PageIdle /\ FreeIdle /\ HeaderIdle /\ RangePageInit
        /\ SessionIdle

RangeNext == ParseRange

\* parse_time_range on a range text of the page
RangeSpec == RangeSpecInit /\ [][RangeNext]_vars

FormatSpecInit ==
    NavIdle /\ PageIdle /\ FreeIdle /\ HeaderIdle /\ RangeIntervalInit
        /\ SessionIdle

FormatNext == FormatFree \/ ParseRange

\* a free interval formatted as in line 420 and parsed again
FormatSpec == FormatSpecInit /\ [][FormatNext]_vars

-----------------------------------------------------------------------------
(* Properties of navigate_to_date *)

Abs(n) == IF n < 0 THEN 0 - n ELSE n

\* the page moves one day per click, reacts to every click, has its arrows
OneDayView == viewKind = "day" /\ honour = -1 /\ arrows >= 2

\* the header shows a date
ShowsDate == parse_header_date(shown).ok

\* the last click is not rendered and never will be
Unanswered == pc = "wait" /\ pending = 0 /\ shown = labelAtClick

\* C1: with a page that moves exactly one day per click and a target n days
\* away, 0 < n < 365, navigate_to_date clicks only the arrow towards the
\* target, exactly n times, and returns normally with the target displayed.
C1_ExactSteps ==
    (OneDayView /\ ShowsDate /\ 0 < Abs(offset) /\ Abs(offset) < 365) =>
        /\ offset > 0 => bwd = 0 /\ fwd <= offset
        /\ offset < 0 => fwd = 0 /\ bwd <= 0 - offset
        /\ pc = "done" =>
              /\ outcome = "ok"
              /\ clicks = Abs(offset)
              /\ fwd + bwd = clicks
              /\ current_date = target_date
              /\ shown = ViewLabel(target_date)

C1_Witness ==
    /\ pc = "done" /\ OneDayView /\ offset = 364
    /\ outcome = "ok" /\ fwd = 364 /\ bwd = 0

\* C2: when the header never differs from what it was before the click,
\* navigate_to_date ends with the stalled error: it does not go on for
\* ever, does not return normally and does not click again.
C2_StallEnds ==
    /\ [](Unanswered => <>(pc = "done" /\ outcome = "NavigationStalled"))
    /\ [][Unanswered => clicks' = clicks /\ pc' \in {"wait", "done"}]_vars
    /\ [][outcome = "NavigationStalled" =>
            clicks' = clicks /\ outcome' = outcome]_vars

C2_Witness ==
    /\ pc = "done" /\ outcome = "NavigationStalled"
    /\ clicks = MaxHonour + 1 /\ shown = labelAtClick

\* C3: navigate_to_date ends after at most 365 clicks whatever the page
\* shows after each click; when the date shown after the 365th click is
\* still not the target it ends with the limit error.
C3_Ceiling ==
    /\ [](clicks <= 365)
    /\ <>(pc = "done")
    /\ [](pc = "done" /\ clicks = 365 /\ ShowsDate /\ shown # labelAtClick
            /\ parse_header_date(shown).v # target_date
          => outcome = "NavigationLimitExceeded")

C3_Witness ==
    /\ pc = "done" /\ viewKind = "skip" /\ Abs(offset) = 1 /\ clicks = 365
    /\ outcome = "NavigationLimitExceeded" /\ current_date # target_date

\* C4: whenever the date read after k clicks, 0 <= k <= 365, is the
\* target, navigate_to_date returns normally.
C4_SuccessWhenConverged ==
    (pc = "done" /\ current_date = target_date /\ clicks <= 365) =>
        outcome = "ok"

\* C5: when the page already shows the target, navigate_to_date returns
\* normally without a click, also when the page has no arrows.
C5_ZeroSteps ==
    (offset = 0 /\ ShowsDate) =>
        /\ clicks = 0 /\ fwd = 0 /\ bwd = 0
        /\ pc = "done" => outcome = "ok" /\ current_date = target_date

C5_Witness ==
    /\ pc = "done" /\ offset = 0 /\ arrows = 0 /\ outcome = "ok"
    /\ clicks = 0

\* C16: when navigate_to_date returns normally, the date it read last is the
\* target and the page shows the target.
C16_SuccessOnTarget ==
    (pc = "done" /\ outcome = "ok") =>
        /\ current_date = target_date
        /\ parse_header_date(shown) = Ok(target_date)
        /\ viewDate = target_date
        /\ pending = 0

C16_Witness ==
    /\ pc = "done" /\ outcome = "ok"
    /\ viewKind = "skip" /\ offset = -2 /\ clicks = 1

\* C17: every click is decided from the date read last: it is on the forward
\* arrow exactly when the target is later than that date and on the
\* backward arrow exactly when it is earlier, also after a step that went
\* past the target.
C17_DirectionPerStep ==
    /\ [](pc = "loop" => parse_header_date(shown) = Ok(current_date))
    /\ [][clicks' = clicks + 1 =>
            /\ (fwd' = fwd + 1) <=> DateLess(current_date, target_date)
            /\ (bwd' = bwd + 1) <=> DateLess(target_date, current_date)
            /\ fwd' + bwd' = clicks']_vars

\* a page that moves two days per click, one day from the target: a click
\* forward, then a click backward
C17_Witness ==
    /\ viewKind = "skip" /\ offset = 1
    /\ fwd = 1 /\ bwd = 1
    /\ DateLess(target_date, current_date)

\* C18: a click is issued only when the click before it is confirmed: the
\* page has rendered it and the header differs from what it was before that
\* click; an iteration of the loop issues one click.
C18_OneTriggerAtATime ==
    /\ [][clicks' = clicks + 1 =>
            /\ pc = "loop" /\ pc' = "wait"
            /\ pending = 0
            /\ clicks > 0 => shown # labelAtClick]_vars
    /\ [][pc = "wait" => clicks' = clicks]_vars
    /\ [][(pc = "loop" /\ pc' = "wait") => clicks' = clicks + 1]_vars

C18_Witness ==
    /\ viewKind = "day" /\ honour = -1
    /\ clicks = 2 /\ pc = "wait" /\ pending # 0
    /\ shown = labelAtClick

-----------------------------------------------------------------------------
(* Properties of parse_time_range, compute_free_slots and extract_agenda *)

\* the element parses: it has a time text and parse_time_range returns
Parses(ev) == TimeText(ev) # "" /\ parse_time_range(TimeText(ev)).ok

\* the number of elements of a column that parse
ParsingCount(elements) ==
    Cardinality({k \in 1..Len(elements) : Parses(elements[k])})

\* the schedules of the agenda, in the order of the keys
Schedules == [i \in 1..Len(result.v) |-> result.v[i][2]]

\* C6: an element whose time text is missing or malformed is dropped without
\* an exception: extract_agenda returns and every column holds exactly the
\* elements whose time text parses.
C6_MalformedDropped ==
    xpc \in {"returned", "raised"} =>
        /\ xpc = "returned"
        /\ Len(result.v) = Len(calendar.day_slots)
        /\ \A i \in 1..Len(result.v) :
              Len(Schedules[i].events_sorted)
                  = ParsingCount(calendar.day_slots[i])

\* the merged spans of a list of intervals: the maximal runs in which every
\* interval starts at or before the end reached so far
MergedCover(list) ==
    LET S == {list[i] : i \in 1..Len(list)}
    IN  { sp \in {iv[1] : iv \in S} \X {iv[2] : iv \in S} :
            /\ sp[1] <= sp[2]
            /\ ~\E iv \in S : iv[1] < sp[1] /\ iv[2] >= sp[1]
            /\ ~\E iv \in S : iv[1] <= sp[2] /\ iv[2] > sp[2]
            /\ \A c \in {iv[2] : iv \in S} :
                  (sp[1] <= c /\ c < sp[2]) =>
                      \E iv \in S : iv[1] <= c /\ c < iv[2] }

\* a set of disjoint spans in ascending order
Ascending(S) ==
    [k \in 1..Cardinality(S) |->
        CHOOSE sp \in S : Cardinality({o \in S : o[1] < sp[1]}) = k - 1]

\* the gaps between consecutive merged spans
Gaps(list) ==
    LET cover == Ascending(MergedCover(list))
    IN  [k \in 1..(Len(cover) - 1) |-> <<cover[k][2], cover[k + 1][1]>>]

\* C7: compute_free_slots returns the gaps between the consecutive spans of
\* the merged cover of its argument, in ascending order; nothing for an
\* empty list or a single interval.
C7_FreeIsGaps ==
    /\ fpc = "done" =>
          /\ slots = Gaps(busy)
          /\ Len(busy) <= 1 => slots = << >>
    /\ compute_free_slots(<<<<540, 600>>, <<660, 720>>>>) = <<<<600, 660>>>>
    /\ compute_free_slots(<<<<540, 600>>, <<580, 620>>>>) = << >>

C7_Witness ==
    /\ fpc = "done"
    /\ busy = <<<<3, 4>>, <<0, 2>>, <<1, 1>>>>
    /\ slots = <<<<2, 3>>>>

\* C8: every free interval of a professional is not empty and lies between
\* the earliest start and the latest end of the professional's events; with
\* fewer than two events there is no free interval.
C8_FreeWithinBookings ==
    xpc = "returned" =>
        \A i \in 1..Len(result.v) :
            LET ev == Schedules[i].events_sorted
                fr == Schedules[i].free_intervals
            IN  /\ Len(ev) <= 1 => fr = << >>
                /\ \A k \in 1..Len(fr) :
                      /\ fr[k][1] < fr[k][2]
                      /\ \E j \in 1..Len(ev) : ev[j][1] <= fr[k][1]
                      /\ \E j \in 1..Len(ev) : fr[k][2] <= ev[j][2]

\* C9: no free interval of a professional overlaps one of the professional's
\* events.
C9_FreeAvoidsBookings ==
    xpc = "returned" =>
        \A i \in 1..Len(result.v) :
            LET ev == Schedules[i].events_sorted
                fr == Schedules[i].free_intervals
            IN  \A k \in 1..Len(fr), j \in 1..Len(ev) :
                    ev[j][2] <= fr[k][1] \/ fr[k][2] <= ev[j][1]

\* a column with an event nested in another one and a free interval
C9_Witness ==
    /\ xpc = "returned"
    /\ \E i \in 1..Len(result.v) :
          LET ev == Schedules[i].events_sorted
          IN  /\ Len(ev) = 3
              /\ ev[1][1] < ev[2][1] /\ ev[2][2] < ev[1][2]
              /\ Schedules[i].free_intervals = <<<<720, 840>>>>
              /\ Schedules[i].free = <<"12:00 - 14:00">>

\* C10: every event kept by extract_agenda has 0 <= start <= end <= 1440.
C10_RangesWithinDay ==
    xpc = "returned" =>
        \A i \in 1..Len(result.v) :
            \A j \in 1..Len(Schedules[i].events_sorted) :
                LET ev == Schedules[i].events_sorted[j]
                IN  0 <= ev[1] /\ ev[1] <= ev[2] /\ ev[2] <= 1440

\* C14: every day column of the page is in the result under the name of its
\* header, in the order of the columns, and a column without an element
\* that parses has the value {events: [], free: []}.
C14_EveryColumnPresent ==
    (xpc \in {"returned", "raised"} /\ calendar.headers # << >>) =>
        /\ xpc = "returned"
        /\ Len(result.v) = Len(calendar.day_slots)
        /\ \A i \in 1..Len(calendar.day_slots) :
              /\ i <= Len(calendar.headers)
              /\ result.v[i][1] = PyStrip(calendar.headers[i])
              /\ ParsingCount(calendar.day_slots[i]) = 0 =>
                    /\ result.v[i][2].events = << >>
                    /\ result.v[i][2].free = << >>

\* the texts an element offers for its time range, in the order time field,
\* label field, scan of the title attribute
SourceTexts(ev) ==
    <<IF ev.horario # << >> THEN PyStrip(ev.horario[1]) ELSE "",
      IF ev.label # << >> THEN PyStrip(ev.label[1]) ELSE "",
      SearchRange(ev.attr, 1)>>

\* the sources of an element that yield a time range
Recoverable(ev) ==
    {n \in 1..3 : SourceTexts(ev)[n] # ""
                    /\ parse_time_range(SourceTexts(ev)[n]).ok}

\* the range of the first source that yields one
FirstRange(ev) ==
    parse_time_range(
        SourceTexts(ev)[CHOOSE n \in Recoverable(ev) :
                           \A o \in Recoverable(ev) : n <= o]).v

\* C19: the time range of an element is that of the first of time field,
\* label field and scan of the title attribute that yields one; an element
\* with such a source is kept with that range, the others are dropped.
C19_FirstSourceWins ==
    xpc = "returned" =>
        LET elements == calendar.day_slots[1]
            kept == Schedules[1].events_sorted
        IN  /\ Len(kept) = Cardinality({k \in 1..Len(elements) :
                                           Recoverable(elements[k]) # {}})
            /\ \A k \in 1..Len(elements) :
                  Recoverable(elements[k]) # {} =>
                      \E j \in 1..Len(kept) :
                          <<kept[j][1], kept[j][2]>> = FirstRange(elements[k])

\* the events of a list that start at minute v, in the order of the list
WithStart(list, v) ==
    LET idx == {i \in 1..Len(list) : list[i][1] = v}
    IN  [k \in 1..Cardinality(idx) |->
            list[CHOOSE i \in idx : Cardinality({j \in idx : j < i}) = k - 1]]

\* the (start, end, description) of the elements of a column that parse, in
\* the order of the column
KeptInOrder(elements) ==
    LET idx == {i \in 1..Len(elements) : Parses(elements[i])}
    IN  [k \in 1..Cardinality(idx) |->
            LET i == CHOOSE i \in idx : Cardinality({j \in idx : j < i}) = k - 1
                r == parse_time_range(TimeText(elements[i])).v
            IN  <<r[1], r[2], Descr(elements[i])>>]

\* C20: the events of every professional are in non-decreasing order of
\* start, and events with the same start keep the order they have in the
\* column, whatever their ends and descriptions.
C20_StableByStart ==
    xpc = "returned" =>
        \A i \in 1..Len(result.v) :
            LET ev == Schedules[i].events_sorted
                kept == KeptInOrder(calendar.day_slots[i])
            IN  /\ Len(ev) = Len(kept)
                /\ \A j, k \in 1..Len(ev) : j < k => ev[j][1] <= ev[k][1]
                /\ \A k \in 1..Len(kept) :
                      WithStart(ev, kept[k][1]) = WithStart(kept, kept[k][1])
                /\ Len(Schedules[i].events) = Len(ev)
                /\ \A j \in 1..Len(ev) :
                      Schedules[i].events[j] = EventStr(ev[j])

\* two events that start at 09:00, the longer one first as in the column,
\* behind an event of the column that starts later
C20_Witness ==
    /\ xpc = "returned"
    /\ calendar.day_slots[1] =
          <<Booking("11:45 - 13:00", "Corte"), Booking("09:00 - 12:00", "Corte"),
            Booking("09:00 - 09:30", "Aparar")>>
    /\ Schedules[1].events =
          <<"09:00 - 12:00: Corte", "09:00 - 09:30: Aparar",
            "11:45 - 13:00: Corte">>

\* the text "HH:MM - HH:MM: <label>" of an event
EntryText(t) ==
    ClockText(t[1] \div 60, t[1] % 60) \o " - "
        \o ClockText(t[2] \div 60, t[2] % 60) \o ": " \o t[3]

\* how many times x occurs in the list
Occurrences(list, x) == Cardinality({j \in 1..Len(list) : list[j] = x})

\* C21: the events of every professional hold one text per element of the
\* column that parses, with the start, end and description of that element,
\* also when elements overlap, touch, are nested or are the same; only the
\* free list is computed from merged intervals.
C21_EventsUnmerged ==
    xpc = "returned" =>
        \A i \in 1..Len(result.v) :
            LET kept == KeptInOrder(calendar.day_slots[i])
                texts == [k \in 1..Len(kept) |-> EntryText(kept[k])]
                ev == Schedules[i].events
            IN  /\ Len(ev) = Len(kept)
                /\ \A k \in 1..Len(texts) :
                      Occurrences(ev, texts[k]) = Occurrences(texts, texts[k])

\* the same booking twice and a booking nested in it
C21_Witness ==
    /\ xpc = "returned"
    /\ calendar.day_slots[1] =
          <<Booking("09:00 - 12:00", "Corte"), Booking(" 09:30 - 10:00 ", "Barba"),
            Booking("09:00 - 12:00", "Corte")>>
    /\ Schedules[1].events =
          <<"09:00 - 12:00: Corte", "09:00 - 12:00: Corte",
            "09:30 - 10:00: Barba">>
    /\ Schedules[1].free = << >>

\* the names of the resource headers, stripped, one per header
HeaderNames ==
    [i \in 1..Len(calendar.headers) |-> PyStrip(calendar.headers[i])]

\* the columns that have a header with a name
NamedColumns ==
    {i \in 1..Len(calendar.day_slots) :
        i <= Len(calendar.headers) /\ HeaderNames[i] # ""}

\* the values stored in the result under a name
ValuesUnder(name) ==
    {result.v[j][2] : j \in {k \in 1..Len(result.v) : result.v[k][1] = name}}

\* C23: the name of the i-th resource header is the key whose events and
\* free lists are those of the i-th day column, also when a header has no
\* name or there are more headers than columns or more columns than headers
\* (stated for pages on which no name is shown twice).
C23_OwnColumn ==
    (/\ xpc = "returned"
     /\ \A i, j \in NamedColumns : i # j => HeaderNames[i] # HeaderNames[j]) =>
        \A i \in NamedColumns :
            \E val \in ValuesUnder(HeaderNames[i]) :
                /\ val.events = ColumnSchedule(calendar.day_slots[i]).v.events
                /\ val.free = ColumnSchedule(calendar.day_slots[i]).v.free

\* C24: every element of every day column that parses has its text in the
\* events stored under the name of the column's header, also when two
\* headers show the same name (stated for pages with a name on every header
\* and as many headers as columns).
C24_NoBookingLost ==
    (/\ xpc = "returned"
     /\ Len(calendar.headers) = Len(calendar.day_slots)
     /\ \A i \in 1..Len(calendar.headers) : HeaderNames[i] # "") =>
        \A i \in 1..Len(calendar.day_slots) :
            LET kept == KeptInOrder(calendar.day_slots[i])
            IN  \A k \in 1..Len(kept) :
                    \E val \in ValuesUnder(HeaderNames[i]) :
                        Occurrences(val.events, EntryText(kept[k])) >= 1

-----------------------------------------------------------------------------
(* Properties of the entry points *)

\* C22: in get_agenda and in main extract_agenda is called only after
\* navigate_to_date returned normally, on the same open session; when
\* navigate_to_date raises there is no extraction and the answer is an error
\* without an agenda.
C22_ExtractAfterNavigation ==
    /\ [][(extracted' /\ ~extracted) =>
            navResult = "ok" /\ browser = "open" /\ driver]_vars
    /\ [](navResult \notin {"none", "ok"} =>
            /\ ~extracted
            /\ response \in {"none", "error"}
            /\ spc = "done" => response = "error")
    /\ [](response = "agenda" => navResult = "ok" /\ extracted)

C22_Witness ==
    /\ spc = "done" /\ entry = "main"
    /\ navResult = "NavigationStalled"
    /\ ~extracted /\ response = "error"

\* C25: a browser that was started is closed when the entry point is done,
\* whichever step failed or succeeded after the start.
C25_SessionClosed ==
    spc = "done" => browser # "open"

-----------------------------------------------------------------------------
(* Properties of parse_header_date *)

\* the number a decimal text stands for, -1 for any other text
Decimal(t) == IF t # "" /\ AllDigits(t) THEN DigitsVal(t, 0) ELSE 0 - 1

\* the header text has the form "<weekday>, <day> <abbrev>. <year>" with a
\* comma, a day and a year in digits, an abbreviation of the table, nothing
\* behind the year, and names a day of the calendar
ExactForm(h) ==
    /\ h.sep \in {", ", ","}
    /\ h.abbrev \in MonthAbbrevs
    /\ h.tail = ""
    /\ PyDate(Decimal(h.year), MONTHS_PT(h.abbrev), Decimal(h.day)).ok

\* C11: parse_header_date returns a date only for a header text of exactly
\* the form "<weekday>, <day> <abbrev>. <year>"; for every other text it
\* raises the parse error.
C11_OnlyExactForm ==
    hpc = "done" =>
        /\ headerDate.ok => ExactForm(headerParts)
        /\ ~headerDate.ok => headerDate.exc = "ValueError"

\* C12: for every date of the calendar, every weekday name and every
\* abbreviation of MONTHS_PT, the text "<weekday>, <day> <abbrev>. <year>",
\* with or without the dot, parses to the date (year, MONTHS_PT[abbrev], day).
C12_LabelRoundTrip ==
    (hpc = "done" /\ headerParts.form = "plain") =>
        LET y == Decimal(headerParts.year)
            m == MONTHS_PT(headerParts.abbrev)
            d == Decimal(headerParts.day)
        IN  /\ m \in 1..12
            /\ d <= DaysInMonth(y, m) => headerDate = Ok(MkDate(y, m, d))
            /\ d > DaysInMonth(y, m) => headerDate = Raise("ValueError")

C12_Witness ==
    /\ hpc = "done"
    /\ headerText = "Domingo, 29 Fev. 2024"
    /\ headerDate = Ok(MkDate(2024, 2, 29))

-----------------------------------------------------------------------------
(* Properties of parse_time_range and minutes_to_hhmm *)

\* C13: the range text of two times HH:MM parses to the same pair
\* (h1*60+m1, h2*60+m2) whether the separator is a hyphen, an en dash or an
\* em dash and whatever the blanks around the separator and the text.
C13_SeparatorAgnostic ==
    /\ (rpc = "parsed" /\ rangeIn.kind = "page") =>
          rangeOut = Ok(<<rangeIn.h1 * 60 + rangeIn.m1,
                          rangeIn.h2 * 60 + rangeIn.m2>>)
    /\ parse_time_range("09:00 - 10:30") = Ok(<<540, 630>>)
    /\ parse_time_range("09:00 " \o EnDash \o " 10:30") = Ok(<<540, 630>>)
    /\ parse_time_range("09:00 " \o EmDash \o " 10:30") = Ok(<<540, 630>>)

C13_Witness ==
    /\ rpc = "parsed"
    /\ rangeText = " 09:00  ^  10:30 "
    /\ rangeOut = Ok(<<540, 630>>)

\* the text t is two digits of hours from 00 to 24, a colon and two digits
\* of minutes from 00 to 59, and stands for the minute m of the day
IsClockOf(t, m) ==
    /\ Len(t) = 5
    /\ \A i \in {1, 2, 4, 5} : SubSeq(t, i, i) \in Digits
    /\ SubSeq(t, 3, 3) = ":"
    /\ LET hours == 10 * DigitVal(SubSeq(t, 1, 1)) + DigitVal(SubSeq(t, 2, 2))
           mins == 10 * DigitVal(SubSeq(t, 4, 4)) + DigitVal(SubSeq(t, 5, 5))
       IN  hours \in 0..24 /\ mins \in 0..59 /\ hours * 60 + mins = m

\* C15: for 0 <= m <= 1440, minutes_to_hhmm(m) is two digits of hours, a
\* colon and two digits of minutes with hours*60+minutes = m, and the text
\* "HH:MM - HH:MM" written for an interval (s, e) parses back to (s, e).
C15_ClockRoundTrip ==
    (rangeIn.kind = "interval" /\ rpc \in {"formatted", "parsed"}) =>
        /\ IsClockOf(minutes_to_hhmm(rangeIn.s), rangeIn.s)
        /\ IsClockOf(minutes_to_hhmm(rangeIn.e), rangeIn.e)
        /\ Len(rangeText) = 13
        /\ IsClockOf(SubSeq(rangeText, 1, 5), rangeIn.s)
        /\ SubSeq(rangeText, 6, 8) = " - "
        /\ IsClockOf(SubSeq(rangeText, 9, 13), rangeIn.e)
        /\ rpc = "parsed" => rangeOut = Ok(<<rangeIn.s, rangeIn.e>>)

C15_Witness ==
    /\ rpc = "parsed"
    /\ rangeIn.kind = "interval"
    /\ rangeText = "24:00 - 00:59"
    /\ rangeOut = Ok(<<1440, 59>>)

-----------------------------------------------------------------------------
(* Concrete cases *)

CaseExtract ==
    /\ LET r == extract_agenda(
                   [headers |-> <<"Ana", "Bruno">>,
                    day_slots |-> << <<Booking("09:00 - 09:30", "Corte"),
                                       Booking("09:30 - 10:00", "Barba")>>,
                                     << >> >>])
       IN  /\ r.ok /\ Len(r.v) = 2
           /\ r.v[1][1] = "Ana"
           /\ r.v[1][2].events = <<"09:00 - 09:30: Corte", "09:30 - 10:00: Barba">>
           /\ r.v[1][2].free = << >>
           /\ r.v[2][1] = "Bruno"
           /\ r.v[2][2].events = << >> /\ r.v[2][2].free = << >>
    /\ LET r == extract_agenda(
                   [headers |-> <<"Ana", "Ana">>,
                    day_slots |-> << <<Booking("09:00 - 09:30", "Corte")>>,
                                     << >> >>])
       IN  r.ok /\ Len(r.v) = 1 /\ r.v[1][2].events = << >>
    /\ LET r == extract_agenda(
                   [headers |-> <<"", "Ana">>,
                    day_slots |-> << <<Booking("09:00 - 09:30", "Corte")>>,
                                     << >> >>])
       IN  r.ok /\ Len(r.v) = 1 /\ r.v[1][1] = "Ana"
              /\ r.v[1][2].events = <<"09:00 - 09:30: Corte">>
    /\ extract_agenda([headers |-> << >>, day_slots |-> << << >> >>])
           = Raise("TimeoutException")

CaseParse ==
    /\ parse_time_range("09:00 - 10:30") = Ok(<<540, 630>>)
    /\ parse_time_range("09:00 ~ 10:30") = Ok(<<540, 630>>)
    /\ parse_time_range("09:00^10:30") = Ok(<<540, 630>>)
    /\ parse_time_range("9 - 10") = Raise("IndexError")
    /\ parse_time_range("ab - 10") = Raise("ValueError")
    /\ parse_time_range("09:00") = Raise("ValueError")
    /\ parse_time_range("09:00 - 10:00 - 11:00") = Raise("ValueError")
    /\ parse_time_range("10:30 - 09:00") = Ok(<<630, 540>>)
    /\ parse_time_range("25:00 - 26:00") = Ok(<<1500, 1560>>)
    /\ parse_time_range("09:00:30 - 10:00") = Ok(<<540, 600>>)
    /\ minutes_to_hhmm(540) = "09:00"
    /\ minutes_to_hhmm(1440) = "24:00"
    /\ minutes_to_hhmm(6000) = "100:00"
    /\ compute_free_slots(<<<<540, 600>>, <<660, 720>>>>) = <<<<600, 660>>>>
    /\ compute_free_slots(<<<<660, 720>>, <<540, 600>>>>) = <<<<600, 660>>>>
    /\ compute_free_slots(<<<<540, 600>>, <<580, 620>>>>) = << >>
    /\ compute_free_slots(<<<<1, 2>>, <<3, 3>>, <<5, 6>>>>) = <<<<2, 3>>, <<3, 5>>>>
    /\ SortedPairs(<<<<3, 1>>, <<1, 2>>, <<1, 1>>>>) = <<<<1, 1>>, <<1, 2>>, <<3, 1>>>>
    /\ SortedByStart(<<<<3, 1, "a">>, <<1, 2, "b">>, <<1, 1, "c">>>>)
           = <<<<1, 2, "b">>, <<1, 1, "c">>, <<3, 1, "a">>>>
    /\ parse_header_date("Segunda-feira, 29 Set. 2025") = Ok(MkDate(2025, 9, 29))
    /\ ViewLabel(MkDate(2025, 9, 29)) = "Segunda-feira, 29 Set. 2025"
    /\ ViewLabel(MkDate(2024, 2, 29)) = "Quinta-feira, 29 Fev. 2024"
    /\ parse_header_date("x, 31 Fev 2025") = Raise("ValueError")
    /\ parse_header_date("Segunda-feira, 29 Set. 2025, extra")
           = Ok(MkDate(2025, 9, 29))
    /\ parse_header_date("Seg, 2.9 Set. 2025") = Ok(MkDate(2025, 9, 29))
    /\ parse_header_date("Seg, 29 Set. 20.25") = Ok(MkDate(2025, 9, 29))
    /\ parse_header_date(", 29 Set 2025") = Ok(MkDate(2025, 9, 29))
    /\ parse_header_date("Seg,29\tSet.\n2025") = Ok(MkDate(2025, 9, 29))
    /\ parse_header_date("Seg, 29 set. 2025") = Raise("ValueError")
    /\ parse_header_date("Seg 29 Set. 2025") = Raise("ValueError")
    /\ parse_header_date("Seg, 29 Set. 2025 x") = Raise("ValueError")
    /\ parse_header_date("Seg, 29 Set. 0") = Raise("ValueError")

=============================================================================
